---------------------------- MODULE Spec2Model ----------------------------
(***************************************************************************)
(* A model of the Grooveshark client core: GSClient (session, token, the   *)
(* QStateMachine built by SetupSM) and GSReply/GSRequest (one call, its    *)
(* network exchanges, its deadline timer and its Finished() signal).       *)
(*                                                                         *)
(* The Qt event loop is modelled by its posted-event queue (postedq): the  *)
(* queued _q_process call of the state machine and the DeferredDelete      *)
(* events of deleteLater() are delivered in posting order.  Network        *)
(* completions and timer expiries arrive at any time.  An action is one    *)
(* slot invocation from the event loop together with everything it calls   *)
(* synchronously (signal emissions, direct slots, direct state machine     *)
(* processing).                                                            *)
(***************************************************************************)
EXTENDS Integers, Sequences, FiniteSets, TLC

\* ---- bounds of the model ----
MaxUser == 2      \* calls submitted by the application through Request()
MaxPool == 2      \* calls the client creates itself that are alive at once
MaxWork == 8      \* a run ends after this many submissions plus dispatches
MaxDeep == 9      \* the same for the runs that start with a cached user id
                  \* (SpecDeep): logging in takes one dispatch more
MaxCnt  == 2      \* saturation of the per-call counters and connections
LiveUser == 1     \* application calls in the runs that are not cut off
MaxIndex == 2     \* characters randchar draws from (the code: 15)

\* ---- program constants (milliseconds) ----
kCTokenTimeout == 600000
kGSReplyTimeout == 20000
\* ---- program constant: the length of the nonce of CreateToken ----
kNonceLen == 6

UserIds == 1..MaxUser
PoolIds == (MaxUser + 1)..(MaxUser + MaxPool)
CallIds == UserIds \cup PoolIds

\* postedq holds 0 for the state machine's queued _q_process and the call
\* id for a DeferredDelete; extq holds call ids, and DanglingReq or
\* DanglingSys for a ReqEvent whose GSRequest has been deleted.
IsProc(e) == e = 0
\* In sm_'s external queue: a ReqEvent whose GSRequest was deleted, by the
\* type of the event.
DanglingReq == 0
DanglingSys == -1

\* ---- the states of SetupSM (atomic states only) ----
s11 == "s11"      \* idle
s12 == "s12"      \* ctoken expired
s21 == "s21"      \* connecting: creating session
s22 == "s22"      \* connecting: updating ctoken
s31 == "s31"      \* connected: authenticating
s321 == "s321"    \* connected: ready, not logged in
s322 == "s322"    \* connected: ready, logged in
s2 == {s21, s22}
s32 == {s321, s322}
s3 == {s31} \cup s32
Phases == {s11, s12} \cup s2 \cup s3

\* ---- methods and event types ----
SysMethods == {"initiateSession", "getGSConfig", "getCommunicationToken"}
AuthMethod == "authenticateAsAuthorizedUser"
UserMethod == "user"
LogoutMethod == "logoutUser"
SysRequestEventType == "Sys"
RequestEventType == "Req"
getType(m) == IF m \in SysMethods THEN SysRequestEventType ELSE RequestEventType

\* ---- what a completed exchange carries (HTTP status, body, fault code) ----
Faults == {"InvalidToken", "InvalidSession", "FetchingToken", "MustBeLoggedIn",
           "OtherFault"}
Views == {"ok", "okzero", "http", "parse"} \cup Faults
\* what ProcessReply reads from reply_ when reply_ is not the exchange that
\* finished (unfinished: no status; already read: empty body)
StaleViews == {"http", "parse"}

VARIABLES
  phase,      \* active atomic state of sm_
  hist,       \* s3h: the deep history of s3 ("none" until s3 was left once)
  session,    \* session_ is non-empty
  ctoken,     \* ctoken_ is non-empty
  ctimer,     \* ctoken_timer_ is active
  user_id,    \* user_id_ is non-empty
  logged_in,  \* logged_in_
  calls,      \* GSReply/GSRequest objects by id
  extq,       \* sm_'s external event queue (ReqEvents, by call id)
  intq,       \* sm_'s internal event queue (signal events)
  postedq,    \* the event loop's posted events: 0 or the id to delete
  readyConns, \* connections of Ready() to GSRequest::PostEvent, in order
  log,        \* exchanges started (network_->post), in order
  ub,         \* the process died using a deleted GSRequest
  bounded,    \* the run is cut off after budget and keeps the log
  budget,     \* submissions plus dispatches after which a bounded run is
              \* cut off
  prev_rnd,   \* the static prev_rnd of CreateToken (<<>>: "")
  minted,     \* the nonces of the tokens returned by the last two calls of
              \* CreateToken (kept in the runs of SpecToken)
  last        \* the event served by the last step and the parity of the
              \* number of steps (kept in unbounded runs)

vars == <<phase, hist, session, ctoken, ctimer, user_id, logged_in, calls,
          extq, intq, postedq, readyConns, log, ub, bounded, budget,
          prev_rnd, minted, last>>

\* A slot of the calls table.  st: "free" (no object), "live", "gone" (the
\* slot of a deleted application call, not used again).  timer: timer_ is
\* active; tconn: connections of timer_.timeout() to ProcessReply; cur: the
\* exchange that is reply_ ("out": not finished, "done": finished); old:
\* unfinished exchanges that setReply has replaced; fin, ndisp, nres: how
\* often Finished() was emitted, the call dispatched, the call re-enqueued by
\* ProcessReply.
NoCall ==
  [st |-> "free", m |-> "none", auth |-> FALSE, has_error |-> FALSE,
   error |-> "none", res |-> "none", timer |-> FALSE, tconn |-> 0,
   cur |-> "none", old |-> 0, fin |-> 0, ndisp |-> 0, nres |-> 0]

\* The state as a record, so that handlers are functions from state to state.
\* processing (sm_ is inside _q_process) is FALSE between actions; ovf marks a
\* step that needed more objects than MaxPool; uaf is the outcome of using a
\* deleted GSRequest, should the step do that.
Cur ==
  [phase |-> phase, hist |-> hist, session |-> session, ctoken |-> ctoken,
   ctimer |-> ctimer, user_id |-> user_id, logged_in |-> logged_in,
   calls |-> calls, extq |-> extq, postedq |-> postedq,
   readyConns |-> readyConns, log |-> log, ub |-> ub,
   intq |-> intq, processing |-> FALSE, ovf |-> FALSE, uaf |-> "crash"]

Inc(n) == IF n < MaxCnt THEN n + 1 ELSE n
InSeq(x, q) == \E i \in 1..Len(q) : q[i] = x
Without(q, x) == SelectSeq(q, LAMBDA y : y # x)
\* submissions plus dispatches so far
Work(s) == Len(s.log) + Cardinality({c \in UserIds : s.calls[c].st # "free"})
Count(q, x) == Cardinality({i \in 1..Len(q) : q[i] = x})
Live(s, c) == c \in CallIds /\ s.calls[c].st = "live"

\* ---------------------------------------------------------------------------
\* GSClient::PostEvent / QStateMachine::postEvent: queue the event; when the
\* machine is neither processing nor scheduled, schedule _q_process.
PostEvent(s, c) ==
  LET q == Append(s.extq, c) IN
  IF s.processing \/ InSeq(0, s.postedq)
    THEN [s EXCEPT !.extq = q]
    ELSE [s EXCEPT !.extq = q, !.postedq = Append(@, 0)]

\* GSClient::Request: a new GSReply/GSRequest pair in slot c, then postEvent.
\* The constructor leaves has_error_ FALSE; type_ of GSReply is never set.
NewCall(s, c, m, auth) ==
  PostEvent([s EXCEPT !.calls[c] = [NoCall EXCEPT !.st = "live", !.m = m,
                                                  !.auth = auth]], c)

\* Request() called by the client itself: the object takes a free pool slot.
Request(s, m, auth) ==
  LET free == {c \in PoolIds : s.calls[c].st = "free"} IN
  IF free = {} THEN [s EXCEPT !.ovf = TRUE]
  ELSE NewCall(s, CHOOSE c \in free : \A d \in free : c <= d, m, auth)

\* GSClient::makeRequest(GSRequest*) with GSReply::setReply: post the request
\* with the current session_ and ctoken_ (the log entry also keeps the state
\* of sm_ and of ctoken_timer_ at that moment), make it reply_, connect finished()
\* and (once more) timer_.timeout() to ProcessReply, restart timer_.
makeRequest(s, c) ==
  LET r == s.calls[c]
      entry == [c |-> c, m |-> r.m, ses |-> s.session, tok |-> s.ctoken,
                ph |-> s.phase, ct |-> s.ctimer]
  IN [s EXCEPT !.calls[c] = [r EXCEPT !.timer = TRUE,
                                      !.tconn = Inc(@),
                                      !.old = IF r.cur = "out" THEN Inc(@) ELSE @,
                                      !.cur = "out",
                                      !.ndisp = Inc(@)],
               !.log = Append(@, entry)]

\* A variant of RequestTransition that connects the call to Ready() instead
\* of dispatching it (what C32 excludes).
RequestTransition_Defer(s, c) == [s EXCEPT !.readyConns = Append(@, c)]

\* RequestTransition::onTransition
RequestTransition(s, c) == makeRequest(s, c)

\* A variant of DeferRequestTransition that dispatches every call (what C13
\* excludes).
DeferRequestTransition_Dispatch(s, c) == makeRequest(s, c)

\* DeferRequestTransition::onTransition
DeferRequestTransition(s, c) ==
  IF getType(s.calls[c].m) = SysRequestEventType
    THEN makeRequest(s, c)
    ELSE IF Count(s.readyConns, c) < MaxCnt
      THEN [s EXCEPT !.readyConns = Append(@, c)]
      ELSE s

\* GSReply::SetError
SetError(s, c, e) ==
  [s EXCEPT !.calls[c].has_error = TRUE, !.calls[c].error = e]

\* deleteLater(): one DeferredDelete per object in the posted-event queue.
deleteLater(s, c) ==
  IF InSeq(c, s.postedq) THEN s ELSE [s EXCEPT !.postedq = Append(@, c)]

\* emit Finished(): one more completion notification of call c
Notify(s, c) == [s EXCEPT !.calls[c].fin = Inc(@)]

\* emit Finished() of an application call: the listener (every Finished slot
\* of groovesharkservice.cpp) calls reply->deleteLater().
FinishedUser(s, c) == deleteLater(Notify(s, c), c)

\* A variant of CancelRequestTransition that dispatches the call (what C5
\* excludes).
CancelRequestTransition_Dispatch(s, c) == makeRequest(s, c)

\* CancelRequestTransition::onTransition -> GSRequest::CancelRequest ->
\* GSReply::Cancel, taken in s321 for auth_required calls (application calls:
\* the client's own calls all pass auth_required = false).
CancelRequestTransition(s, c) ==
  FinishedUser(SetError([s EXCEPT !.calls[c].timer = FALSE], c, "Cancelled"), c)

\* GSClient::CreateSession (s21 entered)
CreateSession(s) == Request(s, "initiateSession", FALSE)

\* GSClient::UpdateCommunicationToken (s22 entered)
UpdateCommunicationToken(s) == Request(s, "getCommunicationToken", FALSE)

\* GSClient::AuthenticateAsAuthorizedUser (s31 entered); LoginFinished(false)
\* is emitted while the machine is processing, so it is queued internally.
AuthenticateAsAuthorizedUser(s) ==
  IF ~s.user_id THEN [s EXCEPT !.intq = Append(@, "LoginFalse")]
  ELSE Request(s, AuthMethod, FALSE)

\* s32 entered -> Ready(): every connected GSRequest::PostEvent, in order.
RECURSIVE PostAll(_, _)
PostAll(s, q) ==
  IF q = <<>> THEN s ELSE PostAll(PostEvent(s, Head(q)), Tail(q))

EmitReady(s) == PostAll(s, s.readyConns)

\* A variant of EnterS3 that emits Ready() on entering s31 too (what the
\* code does not do: Ready() is connected to the entry of s32 only).
EnterS3_ReadyAlways(s) ==
  LET target == IF s.hist = "none" THEN s31 ELSE s.hist IN
  IF target = s31
    THEN EmitReady(AuthenticateAsAuthorizedUser([s EXCEPT !.phase = s31]))
    ELSE EmitReady([s EXCEPT !.phase = target])

\* Entering s3: its initial state is the deep history state s3h, whose
\* default is s31.
EnterS3(s) ==
  LET target == IF s.hist = "none" THEN s31 ELSE s.hist IN
  IF target = s31
    THEN AuthenticateAsAuthorizedUser([s EXCEPT !.phase = s31])
    ELSE EmitReady([s EXCEPT !.phase = target])

\* A variant of LeaveS3 that keeps no history (what C6 excludes).
LeaveS3_NoHistory(s, to) == [s EXCEPT !.phase = to]

\* Leaving s3 records the active sub-state in s3h.
LeaveS3(s, to) == [s EXCEPT !.hist = s.phase, !.phase = to]

\* ---------------------------------------------------------------------------
\* One signal event taken from sm_'s internal queue, by the signal
\* transitions of SetupSM; a signal without a transition in the active
\* configuration is dropped.
SMSignal(s, sig) ==
  CASE sig = "Fault" /\ s.phase \in s2 -> [s EXCEPT !.phase = s11]
    [] sig = "Ok" /\ s.phase = s21 ->
         UpdateCommunicationToken([s EXCEPT !.phase = s22])
    [] sig = "Ok" /\ s.phase = s22 -> EnterS3(s)
    [] sig \in {"timeout", "CTExpired"} /\ s.phase \in s3 -> LeaveS3(s, s12)
    [] sig = "SessionExpired" /\ s.phase \in s3 -> LeaveS3(s, s11)
    [] sig = "LoginTrue" /\ s.phase = s31 ->
         EmitReady([s EXCEPT !.phase = s322])
    [] sig = "LoginFalse" /\ s.phase = s31 ->
         EmitReady([s EXCEPT !.phase = s321])
    [] sig = "LoginTrue" /\ s.phase = s321 -> [s EXCEPT !.phase = s322]
    [] sig = "LoginFalse" /\ s.phase = s322 -> [s EXCEPT !.phase = s321]
    [] OTHER -> s

\* One ReqEvent taken from sm_'s external queue, by the request transitions
\* of SetupSM (RequestTransition::eventTest selects on auth_required where
\* the transition was built with it; the sub-state is asked before s3).
\* The GSRequest of a ReqEvent may have been deleted meanwhile: the use of
\* the dangling pointer either kills the process or goes unnoticed.  In s11,
\* s12 and s2 the transition is selected by the type of the event alone
\* (check_auth_ is false), only onTransition uses the pointer: if that goes
\* unnoticed, the target state is entered as for any request.
SMRequest(s, c) ==
  IF ~Live(s, c)
    THEN (IF s.uaf = "crash" THEN [s EXCEPT !.ub = TRUE]
          ELSE IF s.phase = s11 THEN CreateSession([s EXCEPT !.phase = s21])
          ELSE IF s.phase = s12
            THEN UpdateCommunicationToken([s EXCEPT !.phase = s22])
          ELSE s)
  ELSE
  CASE s.phase = s11 ->
         CreateSession([DeferRequestTransition(s, c) EXCEPT !.phase = s21])
    [] s.phase = s12 ->
         UpdateCommunicationToken(
           [DeferRequestTransition(s, c) EXCEPT !.phase = s22])
    [] s.phase \in s2 -> DeferRequestTransition(s, c)
    [] s.phase = s31 /\ s.calls[c].auth -> DeferRequestTransition(s, c)
    [] s.phase = s321 /\ s.calls[c].auth -> CancelRequestTransition(s, c)
    [] s.phase = s322 /\ s.calls[c].auth -> RequestTransition(s, c)
    [] OTHER -> RequestTransition(s, c)

\* QStateMachinePrivate::_q_process: internal events first, then external
\* ones, until both queues are empty.
RECURSIVE Drain(_)
Drain(s) ==
  IF s.ovf \/ s.ub THEN s
  ELSE IF s.intq # <<>>
    THEN Drain(SMSignal([s EXCEPT !.intq = Tail(@)], Head(s.intq)))
  ELSE IF s.extq # <<>>
    THEN Drain(SMRequest([s EXCEPT !.extq = Tail(@)], Head(s.extq)))
  ELSE s

RunSM(s) == [Drain([s EXCEPT !.processing = TRUE]) EXCEPT !.processing = FALSE]

\* A signal with a transition in sm_, emitted outside the machine's own
\* processing: the machine handles it at once unless _q_process is already
\* scheduled, in which case it waits in the internal queue.
EmitSM(s, sig) ==
  LET t == [s EXCEPT !.intq = Append(@, sig)] IN
  IF InSeq(0, t.postedq) THEN t ELSE RunSM(t)

\* ---------------------------------------------------------------------------
\* GSClient::LoggedIn, the Finished slot of the authenticate call: it reads
\* the result without looking at hasError().
LoggedIn(s, c) ==
  LET t == deleteLater(Notify(s, c), c) IN
  IF t.calls[c].res = "uid"
    THEN EmitSM([t EXCEPT !.user_id = TRUE, !.logged_in = TRUE], "LoginTrue")
    ELSE EmitSM([t EXCEPT !.logged_in = FALSE], "LoginFalse")

\* The Finished slots of the call made by GSClient::Logout: deleteLater, and
\* the closure, which acts only if the call has no error.
LoggedOut(s, c) ==
  LET t == deleteLater(Notify(s, c), c) IN
  IF t.calls[c].has_error THEN t
  ELSE EmitSM([t EXCEPT !.logged_in = FALSE], "LoginFalse")

\* emit Finished() of a call of type RequestEventType
FinishedReq(s, c) ==
  IF s.calls[c].m = AuthMethod THEN LoggedIn(s, c)
  ELSE IF s.calls[c].m = LogoutMethod THEN LoggedOut(s, c)
  ELSE FinishedUser(s, c)

\* GSReply::Cancel, called by the Fault() connection made in Request()
Cancel(s, c) ==
  FinishedReq(SetError([s EXCEPT !.calls[c].timer = FALSE], c, "Cancelled"), c)

RECURSIVE CancelAll(_, _)
CancelAll(s, cs) ==
  IF cs = {} THEN s
  ELSE LET c == CHOOSE x \in cs : \A y \in cs : x <= y
       IN CancelAll(Cancel(s, c), cs \ {c})

\* A variant of OnFault that leaves the connections to Ready() in place
\* (what C10 excludes).
OnFault_Keep(s) == s

\* emit Fault(): OnFault disconnects every slot from Ready(); CancelRequest
\* runs for every living request that is not of SysRequestEventType; then
\* the signal reaches sm_.  (The slots touch disjoint objects, so the order
\* among them does not show.)
OnFault(s) == [s EXCEPT !.readyConns = <<>>]

EmitFault(s) ==
  LET reqs == {c \in CallIds : Live(s, c) /\
                               getType(s.calls[c].m) = RequestEventType}
  IN EmitSM(CancelAll(OnFault(s), reqs), "Fault")

\* GSClient::RetrieveGSConfig
RetrieveGSConfig(s) == Request(s, "getGSConfig", FALSE)

\* A variant of SessionCreated that goes on to the token without fetching
\* the configuration (what C7, as the code has it, excludes).
SessionCreated_NoConfig(s, c) ==
  LET t == deleteLater(Notify(s, c), c) IN
  IF t.calls[c].has_error THEN EmitFault(t)
  ELSE EmitSM([t EXCEPT !.session = TRUE], "Ok")

\* GSClient::SessionCreated
SessionCreated(s, c) ==
  LET t == deleteLater(Notify(s, c), c) IN
  IF t.calls[c].has_error THEN EmitFault(t)
  ELSE RetrieveGSConfig([t EXCEPT !.session = TRUE])

\* GSClient::GSConfigRetrieved
GSConfigRetrieved(s, c) ==
  LET t == deleteLater(Notify(s, c), c) IN
  IF t.calls[c].has_error THEN EmitFault(t) ELSE EmitSM(t, "Ok")

\* A variant of CommunicationTokenUpdated that does not start
\* ctoken_timer_ (what C24 excludes).
CommunicationTokenUpdated_NoTimer(s, c) ==
  LET t == deleteLater(Notify(s, c), c) IN
  IF t.calls[c].has_error THEN EmitFault(t)
  ELSE EmitSM([t EXCEPT !.ctoken = TRUE], "Ok")

\* GSClient::CommunicationTokenUpdated
CommunicationTokenUpdated(s, c) ==
  LET t == deleteLater(Notify(s, c), c) IN
  IF t.calls[c].has_error THEN EmitFault(t)
  ELSE EmitSM([t EXCEPT !.ctoken = TRUE, !.ctimer = TRUE], "Ok")

\* emit Finished() from GSReply::ProcessReply: the slot connected by the
\* creator of the call.
Finished(s, c) ==
  LET m == s.calls[c].m IN
  CASE m = "initiateSession" -> SessionCreated(s, c)
    [] m = "getGSConfig" -> GSConfigRetrieved(s, c)
    [] m = "getCommunicationToken" -> CommunicationTokenUpdated(s, c)
    [] OTHER -> FinishedReq(s, c)

\* GSClient::ClearSession
ClearSession(s) == [s EXCEPT !.session = FALSE, !.ctoken = FALSE]

\* A variant of ProcessReplyError that records the fault of an exchange it
\* classifies as resend (what C9 excludes).
ProcessReplyError_Marks(s, c, view, ty) ==
  CASE view = "InvalidToken" ->
         [resend |-> TRUE,
          s |-> EmitSM(SetError([s EXCEPT !.ctimer = FALSE], c, view),
                       "CTExpired")]
    [] view \in {"InvalidSession", "FetchingToken"} ->
         [resend |-> ty # SysRequestEventType,
          s |-> EmitSM(ClearSession(
                  IF ty = SysRequestEventType
                    THEN [s EXCEPT !.calls[c].has_error = TRUE] ELSE s),
                "SessionExpired")]
    [] view = "MustBeLoggedIn" ->
         [resend |-> FALSE, s |-> SetError(s, c, "MustBeLoggedIn")]
    [] OTHER -> [resend |-> FALSE, s |-> s]

\* A variant of ProcessReplyError that leaves ctoken_timer_ running on
\* InvalidToken (what C18 excludes).
ProcessReplyError_KeepsTimer(s, c, view, ty) ==
  CASE view = "InvalidToken" ->
         [resend |-> TRUE, s |-> EmitSM(s, "CTExpired")]
    [] view \in {"InvalidSession", "FetchingToken"} ->
         [resend |-> ty # SysRequestEventType,
          s |-> EmitSM(ClearSession(
                  IF ty = SysRequestEventType
                    THEN [s EXCEPT !.calls[c].has_error = TRUE] ELSE s),
                "SessionExpired")]
    [] view = "MustBeLoggedIn" ->
         [resend |-> FALSE, s |-> SetError(s, c, "MustBeLoggedIn")]
    [] OTHER -> [resend |-> FALSE, s |-> s]

\* A variant of ProcessReplyError that re-enqueues a call answered with
\* MustBeLoggedIn (what C22 excludes).
ProcessReplyError_ResendsLogin(s, c, view, ty) ==
  CASE view = "InvalidToken" ->
         [resend |-> TRUE,
          s |-> EmitSM([s EXCEPT !.ctimer = FALSE], "CTExpired")]
    [] view \in {"InvalidSession", "FetchingToken"} ->
         [resend |-> ty # SysRequestEventType,
          s |-> EmitSM(ClearSession(
                  IF ty = SysRequestEventType
                    THEN [s EXCEPT !.calls[c].has_error = TRUE] ELSE s),
                "SessionExpired")]
    [] view = "MustBeLoggedIn" ->
         [resend |-> TRUE, s |-> SetError(s, c, "MustBeLoggedIn")]
    [] OTHER -> [resend |-> FALSE, s |-> s]

\* GSReply::ProcessReplyError.  ty is the value read from the member type_,
\* which no constructor or setter of GSReply initialises.
ProcessReplyError(s, c, view, ty) ==
  CASE view = "InvalidToken" ->
         [resend |-> TRUE,
          s |-> EmitSM([s EXCEPT !.ctimer = FALSE], "CTExpired")]
    [] view \in {"InvalidSession", "FetchingToken"} ->
         [resend |-> ty # SysRequestEventType,
          s |-> EmitSM(ClearSession(
                  IF ty = SysRequestEventType
                    THEN [s EXCEPT !.calls[c].has_error = TRUE] ELSE s),
                "SessionExpired")]
    [] view = "MustBeLoggedIn" ->
         [resend |-> FALSE, s |-> SetError(s, c, "MustBeLoggedIn")]
    [] OTHER -> [resend |-> FALSE, s |-> s]

\* result_ = result["result"]
Result(s, c, view) ==
  IF view \notin {"ok", "okzero"} THEN "none"
  ELSE IF s.calls[c].m # AuthMethod THEN "data"
  ELSE IF view = "ok" THEN "uid" ELSE "uid0"

\* A variant of ProcessReply that re-enqueues a call whose exchange ended
\* with an HTTP status other than 200 (what C25 excludes).
ProcessReply_ResendsHttp(s, c, view, ty) ==
  IF ~s.calls[c].timer
    THEN Finished(SetError(s, c, "HttpTimeout"), c)
  ELSE IF view = "http"
    THEN PostEvent([s EXCEPT !.calls[c].nres = Inc(@)], c)
  ELSE IF view = "parse"
    THEN Finished(SetError(s, c, "ParseError"), c)
  ELSE LET e == ProcessReplyError(s, c, view, ty) IN
       IF e.resend THEN PostEvent([e.s EXCEPT !.calls[c].nres = Inc(@)], c)
       ELSE Finished([e.s EXCEPT !.calls[c].res = Result(s, c, view)], c)

\* GSReply::ProcessReply; view is what reply_ shows when the slot runs.
ProcessReply(s, c, view, ty) ==
  IF ~s.calls[c].timer
    THEN Finished(SetError(s, c, "HttpTimeout"), c)
  ELSE IF view = "http"
    THEN Finished(SetError(s, c, "HttpError"), c)
  ELSE IF view = "parse"
    THEN Finished(SetError(s, c, "ParseError"), c)
  ELSE LET e == ProcessReplyError(s, c, view, ty) IN
       IF e.resend THEN PostEvent([e.s EXCEPT !.calls[c].nres = Inc(@)], c)
       ELSE Finished([e.s EXCEPT !.calls[c].res = Result(s, c, view)], c)

\* timer_.timeout() reaches ProcessReply once per connection made by setReply
RECURSIVE ProcessReplyTimes(_, _, _, _)
ProcessReplyTimes(s, c, view, n) ==
  IF n = 0 THEN s
  ELSE ProcessReplyTimes(ProcessReply(s, c, view, RequestEventType), c, view,
                         n - 1)

\* ---------------------------------------------------------------------------
InitState ==
  /\ phase = s11
  /\ hist = "none"
  /\ session \in BOOLEAN      \* "sessionid" read from the settings
  /\ ctoken = FALSE
  /\ ctimer = FALSE
  /\ user_id \in BOOLEAN      \* "userID" read from the settings
  /\ logged_in = user_id      \* SetLoggedIn(!user_id_.isEmpty())
  /\ calls = [c \in CallIds |-> NoCall]
  /\ extq = <<>>
  /\ intq = <<>>
  /\ postedq = <<>>
  /\ readyConns = <<>>
  /\ log = <<>>
  /\ ub = FALSE
  /\ last = <<"none", 0, 0>>
  /\ prev_rnd = <<>>
  /\ minted = <<>>

Init == InitState /\ bounded = TRUE /\ budget = MaxWork

\* What last becomes when the step serves event a of call c.
Served(a, c) == <<a, c, 1 - last[3]>>

\* The step ends: the new state.  No step is taken once the process died,
\* once a bounded run has used up its budget (the exchanges that setReply
\* superseded are still delivered), or if it needs more objects than
\* the model holds.  A run that is not bounded keeps no log; it keeps the
\* event ev that the step served.
Commit(t, ev) ==
  /\ ~ub
  /\ bounded => (Work(Cur) < budget \/ ev[1] = "superseded")
  /\ ~t.ovf
  /\ bounded' = bounded
  /\ budget' = budget
  /\ UNCHANGED <<prev_rnd, minted>>
  /\ last' = IF bounded THEN last ELSE Served(ev[1], ev[2])
  /\ phase' = t.phase
  /\ hist' = t.hist
  /\ session' = t.session
  /\ ctoken' = t.ctoken
  /\ ctimer' = t.ctimer
  /\ user_id' = t.user_id
  /\ logged_in' = t.logged_in
  /\ calls' = t.calls
  /\ extq' = t.extq
  /\ intq' = t.intq
  /\ postedq' = t.postedq
  /\ readyConns' = t.readyConns
  /\ log' = IF bounded THEN t.log ELSE <<>>
  /\ ub' = t.ub

\* The application calls GSClient::Request(method, parameters, auth_required)
\* (from a slot of its own, run by the event loop after the pending deletes).
Submit(c, auth) ==
  /\ calls[c].st = "free"
  /\ \A i \in 1..Len(postedq) : IsProc(postedq[i])
  /\ \A d \in UserIds : d < c => calls[d].st # "free"
  /\ ~bounded => c <= LiveUser
  /\ Commit(NewCall(Cur, c, UserMethod, auth), <<"submit", c>>)

\* The event loop delivers the queued _q_process of sm_.  uaf is drawn where
\* it is used: when an event of a deleted GSRequest is waiting.
QProcess(uaf) ==
  /\ postedq # <<>>
  /\ IsProc(Head(postedq))
  /\ uaf = "stale" => \E i \in 1..Len(extq) : ~Live(Cur, extq[i])
  /\ Commit(RunSM([Cur EXCEPT !.postedq = Tail(@), !.uaf = uaf]),
            <<"posted", 0>>)

\* The event loop delivers the DeferredDelete of call c: the GSReply, its
\* GSRequest child and timer, its connections and its QNetworkReplys go; a
\* ReqEvent still queued in sm_ keeps its pointer to the deleted request
\* (and its own event type).
Deleted(s, c) ==
  [s EXCEPT !.calls[c] = IF c \in UserIds
                           THEN [NoCall EXCEPT !.st = "gone"] ELSE NoCall,
            !.readyConns = Without(@, c),
            !.extq = [i \in 1..Len(@) |->
                        IF @[i] # c THEN @[i]
                        ELSE IF getType(s.calls[c].m) = SysRequestEventType
                          THEN DanglingSys ELSE DanglingReq]]

Release(c) ==
  /\ postedq # <<>>
  /\ Head(postedq) = c
  /\ Commit(Deleted([Cur EXCEPT !.postedq = Tail(@)], c), <<"posted", 0>>)

\* QNetworkReply::finished() of the exchange that is reply_ of call c.  ty is
\* drawn where type_ is read: for the faults InvalidSession and FetchingToken.
NetFinish(c, view, ty) ==
  /\ ty = SysRequestEventType => view \in {"InvalidSession", "FetchingToken"}
  /\ calls[c].cur = "out"
  /\ Live(Cur, c)
  /\ view = "okzero" => calls[c].m = AuthMethod
  /\ Commit(ProcessReply([Cur EXCEPT !.calls[c].cur = "done"], c, view, ty),
            <<"finished", c>>)

\* QNetworkReply::finished() of an exchange that setReply has replaced:
\* ProcessReply reads reply_, which is another exchange.
NetFinishOld(c, view) ==
  /\ calls[c].old > 0
  /\ Live(Cur, c)
  /\ Commit(ProcessReply([Cur EXCEPT !.calls[c].old = @ - 1], c, view,
                          RequestEventType), <<"superseded", c>>)

\* timer_ of call c times out (timers are served when no posted event is
\* pending).  The timer was never set single-shot, so it is still active in
\* the slot; reply_ has no status yet, or was read before.
TimerFire(c, view) ==
  /\ postedq = <<>>
  /\ calls[c].timer
  /\ Live(Cur, c)
  /\ calls[c].cur = "done" => view = "parse"
  /\ Commit(ProcessReplyTimes(Cur, c, view, calls[c].tconn),
            <<"timeout", c>>)

\* ctoken_timer_ (single-shot) times out.  It is started on the way into s3,
\* and s31 is left when the authenticate call completes, at the latest by that
\* call's own deadline: with kGSReplyTimeout < kCTokenTimeout the timer cannot
\* run out while the machine is still in s31.
CTokenTimeout ==
  /\ ctimer
  /\ postedq = <<>>
  /\ kGSReplyTimeout < kCTokenTimeout => phase # s31
  /\ Commit(EmitSM([Cur EXCEPT !.ctimer = FALSE], "timeout"),
            <<"timeout", 0>>)

Next ==
  \/ \E c \in UserIds, auth \in BOOLEAN : Submit(c, auth)
  \/ \E uaf \in {"crash", "stale"} : QProcess(uaf)
  \/ \E c \in CallIds : Release(c)
  \/ \E c \in CallIds, view \in Views,
        ty \in {SysRequestEventType, RequestEventType} : NetFinish(c, view, ty)
  \/ \E c \in CallIds, view \in StaleViews : NetFinishOld(c, view)
  \/ \E c \in CallIds, view \in StaleViews : TimerFire(c, view)
  \/ CTokenTimeout

Spec == Init /\ [][Next]_vars

\* ---------------------------------------------------------------------------
\* GSClient::CreateToken, on its own: the token of a request header.  The
\* runs of the state machine above leave the nonce out, which nothing else
\* reads; the runs of SpecToken are calls of CreateToken one after another.
\* randchar: charset[rand() % max_index], one of the first max_index
\* characters.
Chars == 0..(MaxIndex - 1)
Nonces == [1..kNonceLen -> Chars]

\* A variant of the loop condition that accepts every draw (what C14
\* excludes).
LoopExits_Always(rnd, prev) == TRUE

\* do { generate } while (rnd == prev_rnd): the loop is left with rnd.
LoopExits(rnd, prev) == rnd # prev

\* The value returned: rnd + sha1(method:ctoken_:salt:rnd), with the hash
\* kept as its input.
Token(method, tok, rnd) ==
  [rnd |-> rnd, hash |-> <<method, tok, "salt", rnd>>]
\* the first kNonceLen characters of a token
NonceOf(token) == token.rnd

\* CreateToken(method, salt) returning with the draw rnd (the draws before
\* it, if any, were equal to prev_rnd and left nothing behind).
CreateToken(method, rnd) ==
  /\ LoopExits(rnd, prev_rnd)
  /\ prev_rnd' = rnd
  /\ minted' = IF minted = <<>>
                 THEN <<NonceOf(Token(method, ctoken, rnd))>>
                 ELSE <<minted[Len(minted)],
                        NonceOf(Token(method, ctoken, rnd))>>
  /\ UNCHANGED <<phase, hist, session, ctoken, ctimer, user_id, logged_in,
                 calls, extq, intq, postedq, readyConns, log, ub, bounded,
                 budget, last>>

NextToken ==
  \E method \in SysMethods \cup {AuthMethod, UserMethod}, rnd \in Nonces :
    CreateToken(method, rnd)

SpecToken == Init /\ [][NextToken]_vars

\* Runs that are not cut off, for the properties of the form "eventually".
\* The event loop delivers what is posted; every exchange that was started
\* finishes unless the deadline timer of its call fires.
InitLive == InitState /\ bounded = FALSE /\ budget = MaxWork

\* A posted event is pending, and the step delivers one.
Delivered == ~ub /\ postedq # <<>> /\ last' = Served("posted", 0)
\* The exchange that is reply_ of call c is outstanding, or the deadline of
\* c can fire, and the step is the completion of that exchange or the
\* timeout of c.
Answered(c) ==
  /\ ~ub /\ calls[c].st = "live"
  /\ calls[c].cur = "out" \/ (calls[c].timer /\ postedq = <<>>)
  /\ last' \in {Served("finished", c), Served("timeout", c)}
\* The same for an exchange of c that setReply has replaced.
AnsweredOld(c) ==
  /\ ~ub /\ calls[c].st = "live"
  /\ calls[c].old > 0 \/ (calls[c].timer /\ postedq = <<>>)
  /\ last' \in {Served("superseded", c), Served("timeout", c)}

\* The deadline timer of c runs while no exchange of c is outstanding (the
\* call was re-enqueued and is deferred): nothing restarts the timer before
\* the next dispatch, so it runs out if the call stays deferred.
Expired(c) ==
  /\ ~ub /\ calls[c].st = "live"
  /\ calls[c].timer /\ postedq = <<>>
  /\ calls[c].cur # "out" /\ calls[c].old = 0
  /\ last' = Served("timeout", c)

\* (Every step of an unbounded run changes last, so a step of the event
\* loop that serves the event is a step <<...>>_last.)
Fairness ==
  /\ WF_last(Delivered)
  /\ \A c \in CallIds : /\ WF_last(Answered(c))
                        /\ WF_last(AnsweredOld(c))
                        /\ SF_last(Expired(c))

SpecLive == InitLive /\ [][Next]_vars /\ Fairness

\* ---------------------------------------------------------------------------
\* The runs of SpecLogout start with a cached user id, and the one thing the
\* application does in them is to call GSClient::Logout: user_id_ is cleared
\* and the call "logoutUser" is requested (auth_required false, type
\* RequestEventType); logged_in_ is left to the Finished closure.
Logout(c) ==
  /\ calls[c].st = "free"
  /\ \A i \in 1..Len(postedq) : IsProc(postedq[i])
  /\ \A d \in UserIds : d < c => calls[d].st # "free"
  /\ \A d \in UserIds : calls[d].m # LogoutMethod
  /\ Commit(NewCall([Cur EXCEPT !.user_id = FALSE], c, LogoutMethod, FALSE),
            <<"submit", c>>)

InitLogout ==
  InitState /\ bounded = TRUE /\ budget = MaxWork /\ user_id = TRUE

NextLogout ==
  \/ \E c \in UserIds : Logout(c)
  \/ \E uaf \in {"crash", "stale"} : QProcess(uaf)
  \/ \E c \in CallIds : Release(c)
  \/ \E c \in CallIds, view \in Views,
        ty \in {SysRequestEventType, RequestEventType} : NetFinish(c, view, ty)
  \/ \E c \in CallIds, view \in StaleViews : NetFinishOld(c, view)
  \/ \E c \in CallIds, view \in StaleViews : TimerFire(c, view)
  \/ CTokenTimeout

SpecLogout == InitLogout /\ [][NextLogout]_vars

\* Runs of a client constructed with a cached user id (of the runs of Next,
\* where the application does not call Login(), the only ones that reach
\* s322), cut off one dispatch later.
InitDeep ==
  InitState /\ bounded = TRUE /\ budget = MaxDeep /\ user_id = TRUE

SpecDeep == InitDeep /\ [][Next]_vars

\* ---------------------------------------------------------------------------
\* The exchanges started by the step, in order.
NewLog == SubSeq(log', Len(log) + 1, Len(log'))
Dispatched(c) == \E i \in 1..Len(NewLog) : NewLog[i].c = c

\* C1: the completion notification Finished() of a call fires at most once
\* over the call's lifetime, whatever the interleaving of network completion,
\* deadline timer, Fault cancellation, Ready re-emission and resend.
C1_FinishedOnce == \A c \in CallIds : calls[c].fin <= 1

\* C2: a call deferred in Idle is dispatched exactly once after Ready: a call
\* that no resend has re-enqueued is never dispatched a second time while the
\* exchange of its first dispatch is still outstanding.
C2_DispatchedOnce ==
  \A c \in UserIds :
    ~(calls[c].nres = 0 /\ calls[c].ndisp >= 2 /\ calls[c].old > 0)

\* C4: automatic resend is bounded to one per call: ProcessReply re-enqueues
\* a call, of the application or of the client itself, at most once.
C4_ResendOnce == \A c \in CallIds : calls[c].nres <= 1

\* Call p got Finished() in this step, without / with an error.
Succeeded(p) ==
  /\ calls[p].st = "live" /\ calls'[p].st = "live"
  /\ calls'[p].fin > calls[p].fin /\ ~calls'[p].has_error
Failed(p) ==
  /\ calls[p].st = "live" /\ calls'[p].st = "live"
  /\ calls'[p].fin > calls[p].fin /\ calls'[p].has_error
\* A GSReply/GSRequest for method m was created in this step.
Created(m) ==
  \E p \in PoolIds : calls[p].st = "free" /\ calls'[p].st = "live" /\
                     calls'[p].m = m

\* C5: an auth_required application call processed in s321 (ready, not
\* logged in) completes at once with Cancelled, no exchange is started for
\* it then, and none is started for it afterwards.
C5_CancelledInNotLoggedIn ==
  [][\A c \in UserIds :
       /\ (phase = s321 /\ Live(Cur, c) /\ calls[c].auth) =>
            LET t == SMRequest([Cur EXCEPT !.processing = TRUE], c) IN
              /\ t.calls[c].has_error /\ t.calls[c].error = "Cancelled"
              /\ t.calls[c].fin = Inc(calls[c].fin)
              /\ InSeq(c, t.postedq)
              /\ t.log = log /\ t.calls[c].ndisp = calls[c].ndisp
       /\ (calls[c].auth /\ calls[c].error = "Cancelled") => ~Dispatched(c)
    ]_vars

C5_Witness ==
  \E c \in UserIds :
    /\ phase = s321 /\ calls[c].st = "live" /\ calls[c].auth
    /\ calls[c].error = "Cancelled" /\ calls[c].fin = 1 /\ calls[c].ndisp = 0
    /\ Len(log) >= 3

\* C6: when ctoken_timer_ fires in s322 the machine goes to s12 and s3h keeps
\* s322; from then on no application call is dispatched before a
\* getCommunicationToken call has succeeded, in which step the machine is
\* back in s322 without a new authenticateAsAuthorizedUser call.
C6_TokenTimerHistory ==
  [][/\ (CTokenTimeout /\ phase = s322) => (phase' = s12 /\ hist' = s322)
     /\ (hist = s322 /\ phase \in {s12, s22}) =>
          /\ (\E i \in 1..Len(NewLog) : NewLog[i].m = UserMethod) =>
               /\ \E p \in PoolIds : /\ calls'[p].st = "live"
                                     /\ calls'[p].m = "getCommunicationToken"
                                     /\ calls'[p].fin >= 1
                                     /\ ~calls'[p].has_error
               /\ ctoken' /\ phase' = s322
               /\ \A i \in 1..Len(NewLog) :
                    NewLog[i].m = UserMethod => NewLog[i].ph = s322
          /\ phase' \in s3 => (phase' = s322 /\ ~Created(AuthMethod))
    ]_vars

C6_Witness ==
  /\ phase = s322 /\ hist = s322 /\ ctimer
  /\ Len(log) = 7
  /\ log[5].m = UserMethod /\ log[5].c = 1
  /\ log[6].m = "getCommunicationToken" /\ log[6].ph = s22
  /\ log[7].m = UserMethod /\ log[7].c = 2 /\ log[7].ph = s322
  /\ calls[2].ndisp = 1 /\ calls[2].cur = "out"

\* The application calls held by connections to Ready() (the deferral queue)
\* that the state ph dispatches: s321 cancels the auth_required ones.
Admitted(q, ph) ==
  SelectSeq(q, LAMBDA c : ~(ph = s321 /\ calls[c].auth))
LogIds(q) == [i \in 1..Len(q) |-> q[i].c]

C8_DispatchedWithSessionAndToken ==
  [][\A i \in 1..Len(NewLog) :
       (NewLog[i].c = 1 /\ ~calls'[1].auth /\ ~log'[1].ses) =>
          /\ NewLog[i].ses /\ NewLog[i].tok
          /\ \E j, k \in 1..Len(log') :
               /\ j < k /\ k < Len(log) + i
               /\ log'[j].m = "initiateSession"
               /\ log'[k].m = "getCommunicationToken"
    ]_vars

C10_FaultCancelsDeferred ==
  [][/\ ((\E p \in PoolIds : calls[p].m \in SysMethods /\ Failed(p)) /\
         phase \in s2) =>
          /\ \/ phase' = s11
             \/ /\ phase' \in s2 /\ InSeq(0, postedq')
                /\ \E i \in 1..Len(intq') :
                     /\ intq'[i] = "Fault"
                     /\ \A j \in 1..(i - 1) : intq'[j] # "Ok"
          /\ readyConns' = <<>>
          /\ \A i \in 1..Len(readyConns) :
               LET c == readyConns[i] IN
                 /\ calls'[c].has_error /\ calls'[c].error = "Cancelled"
                 /\ calls'[c].fin >= 1
                 /\ (calls[c].fin < MaxCnt => calls'[c].fin > calls[c].fin)
     /\ \A c \in UserIds : calls[c].error = "Cancelled" => ~Dispatched(c)
    ]_vars

C10_Witness ==
  /\ phase = s11 /\ readyConns = <<>> /\ Len(log) >= 1
  /\ \A c \in UserIds : /\ calls[c].st = "live" /\ calls[c].fin = 1
                        /\ calls[c].error = "Cancelled" /\ calls[c].ndisp = 0

\* C3: no call is left pending for ever: as long as the process lives, every
\* submitted call gets Finished().
C3_EventuallyFinished ==
  ([]~ub) =>
    \A c \in UserIds : (calls[c].st = "live") ~> (calls[c].fin >= 1)

\* C14: for any two consecutive calls of CreateToken the nonces returned
\* differ, every nonce has kNonceLen characters, and after each call
\* prev_rnd is the nonce just returned.
C14_NonceDiffers ==
  /\ \A i \in 1..Len(minted) : minted[i] \in Nonces
  /\ Len(minted) = 2 => minted[1] # minted[2]
  /\ minted # <<>> => prev_rnd = minted[Len(minted)]

C14_Witness ==
  /\ Len(minted) = 2
  /\ minted[1][1] = minted[2][1] /\ minted[1][kNonceLen] # minted[2][kNonceLen]


\* Fault() is raised in this step: a bootstrap call completed with an error.
FaultRaised == \E p \in PoolIds : calls[p].m \in SysMethods /\ Failed(p)

\* C11: Fault() leaves alone the calls whose exchange is in flight: such a
\* call does not get Finished() with error Cancelled in the step that raises
\* Fault().
C11_FaultSparesInFlight ==
  [][\A c \in UserIds :
       (FaultRaised /\ calls[c].st = "live" /\ calls[c].cur = "out" /\
        ~calls[c].has_error) =>
          ~(/\ calls'[c].st = "live" /\ calls'[c].error = "Cancelled"
            /\ calls'[c].fin > calls[c].fin)
    ]_vars

\* C15: a call whose exchange is in flight is not dispatched again: each
\* deferral of a call leads to at most one dispatch.
C15_NoDispatchInFlight ==
  [][\A c \in UserIds :
       (calls[c].st = "live" /\ calls[c].cur = "out") => ~Dispatched(c)
    ]_vars

\* C16: whenever the machine rests in s3 (no signal waiting in its internal
\* queue), session_ and ctoken_ are both non-empty; stated for the case the
\* claim includes, s3 entered again after it was left through s12 or s22.
C16_ConnectedHasSessionAndToken ==
  (phase \in s3 /\ intq = <<>> /\ hist # "none") => (session /\ ctoken)

\* C17: an initiateSession exchange is started only when session_ is empty.
C17_SessionCreatedOnlyWhenEmpty ==
  [][\A i \in 1..Len(NewLog) :
       NewLog[i].m = "initiateSession" => ~NewLog[i].ses
    ]_vars


\* s3 was left and since then a session was created anew, session_ having
\* been cleared: an initiateSession exchange started with an empty session_
\* after the last exchange started in s3.
SessionClearedSinceS3 ==
  \E k \in 1..Len(log) :
    /\ log[k].m = "initiateSession" /\ ~log[k].ses
    /\ \E j \in 1..(k - 1) : log[j].ph \in s3
    /\ \A j \in (k + 1)..Len(log) : log[j].ph \notin s3

\* C12: when session_ was cleared since s3 was left (and user_id_ is
\* non-empty), the successful token refresh that brings the machine back into
\* s3 enters s31, authenticating again, not the remembered sub-state of s32.
C12_ReauthAfterSessionCleared ==
  \A p \in PoolIds :
    (/\ phase = s22 /\ hist \in s32 /\ user_id /\ SessionClearedSinceS3
     /\ calls[p].st = "live" /\ calls[p].m = "getCommunicationToken"
     /\ calls[p].cur = "out" /\ calls[p].timer
     /\ intq = <<>> /\ ~InSeq(0, postedq)) =>
       LET t == ProcessReply([Cur EXCEPT !.calls[p].cur = "done"], p, "ok",
                             SysRequestEventType)
       IN t.phase = s31

\* The exchange in flight of call c is answered in this step with a fault
\* that clears the session (InvalidSession, FetchingToken).
SessionFault(c) ==
  /\ calls[c].st = "live" /\ calls[c].cur = "out"
  /\ calls'[c].st = "live" /\ calls'[c].cur = "done"
  /\ session /\ ~session'

\* C19: when an application call in flight is answered with InvalidSession
\* or FetchingToken and re-enqueued, the machine is on its way to a new
\* session: it is in s11 (the next request creates a session), or the move
\* to s11 waits in the pending _q_process, or an initiateSession exchange is
\* in flight in s21.
C19_SessionFaultReconnects ==
  [][\A c \in UserIds :
       (SessionFault(c) /\ calls'[c].nres > calls[c].nres) =>
          \/ phase' = s11
          \/ /\ phase' \in s3 /\ InSeq(0, postedq')
             /\ InSeq("SessionExpired", intq')
          \/ /\ phase' = s21
             /\ \E p \in PoolIds : /\ calls'[p].st = "live"
                                   /\ calls'[p].m = "initiateSession"
                                   /\ calls'[p].cur = "out"
    ]_vars

\* C20: a bootstrap call answered with InvalidSession or FetchingToken gets
\* Finished() with an error in that step and is not re-enqueued.
C20_SysCallFailsAtOnce ==
  [][\A p \in PoolIds :
       (calls[p].m \in SysMethods /\ SessionFault(p)) =>
          /\ calls'[p].has_error
          /\ calls'[p].fin > calls[p].fin
          /\ calls'[p].nres = calls[p].nres
          /\ ~InSeq(p, extq')
    ]_vars


\* C13: an exchange of a call of RequestEventType is started only while sm_
\* is in s3 and ctoken_timer_ is running.
C13_DispatchOnlyConnectedAndFresh ==
  [][\A i \in 1..Len(NewLog) :
       NewLog[i].m \notin SysMethods => (NewLog[i].ph \in s3 /\ NewLog[i].ct)
    ]_vars

\* an application call dispatched in s32 after s3 was left and entered again
C13_Witness ==
  \E i, j \in 1..Len(log) :
    /\ 3 < i /\ i < j
    /\ log[i].m = "getCommunicationToken" /\ log[i].ph = s22
    /\ log[j].m = UserMethod /\ log[j].ph \in s32 /\ log[j].ct
    /\ hist \in s32 /\ phase \in s32


\* The living getCommunicationToken calls of state s.
TokenCalls(s) ==
  {p \in PoolIds : s.calls[p].st = "live" /\
                   s.calls[p].m = "getCommunicationToken"}

\* C18: an application call c in flight in s3, not completed, is answered
\* with InvalidToken: ctoken_timer_ is stopped, c gets no Finished() and is
\* re-enqueued, and the machine is in s12 (or CTExpired waits for the
\* pending _q_process); with the event loop idle, the _q_process that
\* follows defers c, goes to s22 and starts exactly one
\* getCommunicationToken exchange and no other.  Wherever the machine is
\* outside s3, an application call is dispatched only in a step that ends in
\* s3 with a getCommunicationToken call completed without error; and when
\* the token refresh fails in s22, every living application call gets
\* Finished() with error Cancelled.
C18_InvalidTokenRefreshesOnce ==
  [][/\ \A c \in UserIds, ty \in {SysRequestEventType, RequestEventType} :
          (/\ phase \in s3
           /\ calls[c].st = "live" /\ calls[c].cur = "out" /\ calls[c].timer
           /\ calls[c].fin = 0 /\ ~calls[c].has_error) =>
             LET t == ProcessReply([Cur EXCEPT !.calls[c].cur = "done"], c,
                                   "InvalidToken", ty)
                 u == RunSM([t EXCEPT !.postedq = Tail(@)])
             IN /\ ~t.ctimer
                /\ t.calls[c].fin = 0 /\ ~t.calls[c].has_error
                /\ InSeq(c, t.extq) /\ InSeq(0, t.postedq)
                /\ TokenCalls(t) = TokenCalls(Cur)
                /\ \/ t.phase = s12
                   \/ /\ t.phase \in s3 /\ InSeq(0, postedq)
                      /\ InSeq("CTExpired", t.intq)
                /\ (postedq = <<>> /\ intq = <<>> /\ ~u.ovf) =>
                     /\ t.phase = s12 /\ t.extq = <<c>>
                     /\ u.phase = s22 /\ InSeq(c, u.readyConns)
                     /\ Cardinality(TokenCalls(u)) =
                          Cardinality(TokenCalls(Cur)) + 1
                     /\ Len(u.log) = Len(log) + 1
                     /\ u.log[Len(u.log)].m = "getCommunicationToken"
                     /\ u.calls[c].fin = 0
     /\ \A c \in UserIds :
          (phase \notin s3 /\ Dispatched(c)) =>
             /\ phase' \in s3
             /\ \E p \in PoolIds : /\ calls'[p].st = "live"
                                   /\ calls'[p].m = "getCommunicationToken"
                                   /\ calls'[p].fin >= 1
                                   /\ ~calls'[p].has_error
     /\ \A p \in PoolIds :
          (phase = s22 /\ calls[p].m = "getCommunicationToken" /\ Failed(p)) =>
             \A c \in UserIds :
               calls[c].st = "live" =>
                 /\ calls'[c].has_error /\ calls'[c].error = "Cancelled"
                 /\ calls'[c].fin >= 1
                 /\ (calls[c].fin < MaxCnt => calls'[c].fin > calls[c].fin)
    ]_vars

\* call 2, submitted in s3 and dispatched at once, was answered with
\* InvalidToken, deferred once, and dispatched again after the token refresh
C18_Witness ==
  /\ calls[2].st = "live" /\ calls[2].nres = 1 /\ calls[2].ndisp = 2
  /\ calls[2].old = 0 /\ calls[2].cur = "out" /\ calls[2].fin = 0
  /\ Count(readyConns, 2) = 1
  /\ phase \in s32 /\ hist \in s32 /\ ctimer


\* C21: when a call is answered with MustBeLoggedIn in s322, logged_in_ is
\* cleared and the machine goes to s321 (at once, or LoginFinished(false)
\* waits for the pending _q_process).
C21_MustBeLoggedInLogsOut ==
  [][\A c \in UserIds :
       (/\ phase = s322 /\ calls[c].st = "live" /\ calls'[c].st = "live"
        /\ calls[c].error # "MustBeLoggedIn"
        /\ calls'[c].error = "MustBeLoggedIn") =>
          /\ ~logged_in'
          /\ phase' = s321 \/ InSeq("LoginFalse", intq')
    ]_vars

\* C26: when timer_ of a dispatched call fires before the exchange has
\* finished (Finished() is emitted while the only exchange of the call is
\* still outstanding, and not by a cancellation), the error is HttpTimeout.
C26_DeadlineGivesHttpTimeout ==
  [][\A c \in UserIds :
       (/\ calls[c].st = "live" /\ calls'[c].st = "live"
        /\ calls[c].cur = "out" /\ calls'[c].cur = "out"
        /\ calls[c].old = 0 /\ calls'[c].old = 0
        /\ calls'[c].fin > calls[c].fin
        /\ calls'[c].error # "Cancelled") =>
          calls'[c].error = "HttpTimeout"
    ]_vars

\* C27: once a call has completed with Cancelled its error stays Cancelled
\* and it is not dispatched, as long as the object lives.
C27_CancelledStaysCancelled ==
  [][\A c \in UserIds :
       (calls[c].st = "live" /\ calls[c].error = "Cancelled" /\
        calls'[c].st = "live") =>
          (calls'[c].error = "Cancelled" /\ ~Dispatched(c))
    ]_vars

\* C30: when ctoken_timer_ fires in s3 the machine goes to s11, so that the
\* next request starts with CreateSession.
C30_TokenTimerResetsToIdle ==
  [][(CTokenTimeout /\ phase \in s3) => phase' = s11]_vars

\* C22: a dispatched application call whose exchange is answered with
\* MustBeLoggedIn gets Finished() once with error MustBeLoggedIn; it is not
\* posted to the machine again, not deferred and not dispatched, and its
\* deletion is what the slot of the owner asks for.  Whatever type_ holds.
C22_MustBeLoggedInCompletes ==
  \A c \in UserIds, ty \in {SysRequestEventType, RequestEventType} :
    (calls[c].st = "live" /\ calls[c].cur = "out" /\ calls[c].timer) =>
      LET t == ProcessReply([Cur EXCEPT !.calls[c].cur = "done"], c,
                            "MustBeLoggedIn", ty)
      IN /\ t.calls[c].has_error /\ t.calls[c].error = "MustBeLoggedIn"
         /\ t.calls[c].fin = Inc(calls[c].fin)
         /\ t.calls[c].nres = calls[c].nres
         /\ t.calls[c].ndisp = calls[c].ndisp
         /\ t.extq = extq /\ t.intq = intq
         /\ t.readyConns = readyConns /\ t.log = log
         /\ t.phase = phase
         /\ InSeq(c, t.postedq)

\* a call dispatched once and never resent was answered with MustBeLoggedIn
C22_Witness ==
  \E c \in UserIds :
    /\ calls[c].st = "live" /\ calls[c].cur = "done"
    /\ calls[c].has_error /\ calls[c].error = "MustBeLoggedIn"
    /\ calls[c].fin = 1 /\ calls[c].nres = 0 /\ calls[c].ndisp = 1
    /\ ~InSeq(c, extq)

C24_BootstrapOutcome ==
  \A p \in PoolIds :
    (/\ phase \in s2 /\ ~ub
     /\ calls[p].st = "live" /\ calls[p].cur = "out" /\ calls[p].timer
     /\ calls[p].m \in {"initiateSession", "getCommunicationToken"}) =>
      /\ \A v \in {"http", "parse", "MustBeLoggedIn"} :
           LET t == ProcessReply([Cur EXCEPT !.calls[p].cur = "done"], p, v,
                                 SysRequestEventType)
           IN /\ t.calls[p].has_error /\ t.calls[p].fin = Inc(calls[p].fin)
              /\ \/ t.phase = s11
                 \/ /\ t.phase \in s2 /\ InSeq(0, t.postedq)
                    /\ InSeq("Fault", t.intq)
              /\ t.session = session /\ t.ctoken = ctoken
              /\ t.ctimer = ctimer
      /\ LET t == ProcessReply([Cur EXCEPT !.calls[p].cur = "done"], p, "ok",
                               SysRequestEventType)
         IN /\ ~t.calls[p].has_error /\ t.calls[p].fin = Inc(calls[p].fin)
            /\ calls[p].m = "initiateSession" => t.session
            /\ calls[p].m = "getCommunicationToken" =>
                 /\ t.ctoken /\ t.ctimer
                 /\ (phase = s22 /\ postedq = <<>> /\ intq = <<>>) =>
                      t.phase \in s3
                 /\ t.ovf \/ \A i \in (Len(log) + 1)..Len(t.log) :
                               t.log[i].tok /\ t.log[i].ct

\* getCommunicationToken has just succeeded: the machine is in s3 with
\* session, token and running timer, and the exchange of the deferred call 1
\* was started in that step
C24_Witness ==
  /\ phase \in s3 /\ session /\ ctoken /\ ctimer
  /\ \E p \in PoolIds :
       /\ calls[p].st = "live" /\ calls[p].m = "getCommunicationToken"
       /\ calls[p].fin = 1 /\ ~calls[p].has_error /\ InSeq(p, postedq)
  /\ Len(log) = 4 /\ log[4].c = 1 /\ log[4].tok /\ log[4].ct

\* What ProcessReply leaves behind for call c, in t, when it ended the call
\* with error code e without a resend and without a signal to the machine
\* about the token or the session.
EndedWith(t, c, e) ==
  /\ t.calls[c].has_error /\ t.calls[c].error = e
  /\ t.calls[c].fin >= 1
  /\ calls[c].fin < MaxCnt => t.calls[c].fin > calls[c].fin
  /\ t.calls[c].nres = calls[c].nres
  /\ Count(t.extq, c) <= Count(extq, c)
  /\ \A sig \in {"CTExpired", "SessionExpired"} :
       Count(t.intq, sig) <= Count(intq, sig)
  /\ t.session = session /\ t.ctoken = ctoken /\ t.ctimer = ctimer
  /\ c \in UserIds =>
       /\ t.phase = phase /\ t.hist = hist
       /\ t.extq = extq /\ t.intq = intq
       /\ t.log = log /\ t.readyConns = readyConns

\* C25: a dispatched call whose exchange ends with an HTTP status other than
\* 200 gets Finished() with HttpError, one whose body does not parse with
\* ParseError, one whose timer_ is found stopped with HttpTimeout, and one
\* whose timer_ fires with HttpError or ParseError; in each case the call is
\* not posted to the machine again, CTExpired and SessionExpired are not
\* emitted, and session_, ctoken_ and ctoken_timer_ are left alone.
C25_TransportErrorCompletes ==
  \A c \in CallIds :
    (~ub /\ calls[c].st = "live" /\ calls[c].cur = "out") =>
      /\ calls[c].timer =>
           /\ EndedWith(ProcessReply([Cur EXCEPT !.calls[c].cur = "done"], c,
                                     "http", RequestEventType), c, "HttpError")
           /\ EndedWith(ProcessReply([Cur EXCEPT !.calls[c].cur = "done"], c,
                                     "parse", RequestEventType), c,
                        "ParseError")
           /\ \A v \in StaleViews :
                LET t == ProcessReplyTimes(Cur, c, v, calls[c].tconn)
                IN EndedWith(t, c, IF v = "http" THEN "HttpError"
                                   ELSE "ParseError")
      /\ ~calls[c].timer =>
           \A v \in Views :
             calls[c].m = AuthMethod \/ v # "okzero" =>
               EndedWith(ProcessReply([Cur EXCEPT !.calls[c].cur = "done"], c,
                                      v, RequestEventType), c, "HttpTimeout")

\* a call dispatched once was ended by an HTTP error: no resend, and the
\* machine, the token and its timer are as they were
C25_Witness ==
  \E c \in UserIds :
    /\ calls[c].st = "live" /\ calls[c].cur = "done"
    /\ calls[c].has_error /\ calls[c].error = "HttpError"
    /\ calls[c].fin = 1 /\ calls[c].nres = 0 /\ calls[c].ndisp = 1
    /\ ~InSeq(c, extq) /\ phase \in s32 /\ ctoken /\ ctimer /\ session

\* The authenticateAsAuthorizedUser calls created in this step.
NewAuthCalls ==
  {p \in PoolIds : calls[p].st = "free" /\ calls'[p].st = "live" /\
                   calls'[p].m = AuthMethod}

\* C28: a step that enters s3 through s31 (no history, or history s31) and
\* that the process survives.  With user_id_ empty it creates no
\* authenticateAsAuthorizedUser call and ends in s321.  With user_id_ set it
\* creates exactly one, dispatches it and ends in s31.  And when such a call
\* gets Finished() while the machine is in s31 (no _q_process pending), the
\* machine is in s322 with logged_in_ set if the call has no error and a
\* non-zero user id, and in s321 with logged_in_ cleared in every other
\* case.
C28_AuthenticateOnEntry ==
  [][/\ (/\ phase \notin s3 /\ phase' \in s3 /\ ~ub'
         /\ hist \in {"none", s31}) =>
          IF ~user_id
            THEN /\ phase' = s321 /\ NewAuthCalls = {} /\ ~logged_in'
                 /\ \A i \in 1..Len(NewLog) : NewLog[i].m # AuthMethod
            ELSE /\ phase' = s31 /\ Cardinality(NewAuthCalls) = 1
                 /\ \A p \in NewAuthCalls :
                      Dispatched(p) /\ calls'[p].ndisp = 1
     /\ \A p \in PoolIds :
          (/\ phase = s31 /\ calls[p].m = AuthMethod /\ ~ub'
           /\ ~InSeq(0, postedq)
           /\ calls[p].st = "live" /\ calls'[p].st = "live"
           /\ calls'[p].fin > calls[p].fin) =>
             IF ~calls'[p].has_error /\ calls'[p].res = "uid"
               THEN phase' = s322 /\ logged_in' /\ user_id'
               ELSE phase' = s321 /\ ~logged_in'
    ]_vars

\* C29: in s31 the request event of an application call with auth_required
\* is deferred (connected to Ready(), no exchange started, the call left as
\* it is), and the one of a call without auth_required starts the exchange
\* at once.  An auth_required call is dispatched in s322 only.  When the
\* machine goes from s31 to s322 every deferred auth_required call is
\* dispatched in that step, and when it goes from s31 to s321 every one of
\* them is completed with Cancelled and not dispatched.
C29_AuthDeferredUntilLogin ==
  [][/\ \A c \in UserIds :
          (/\ phase = s31 /\ ~ub /\ calls[c].st = "live"
           /\ calls[c].ndisp = 0 /\ calls[c].fin = 0) =>
             LET t == SMRequest(Cur, c) IN
             IF calls[c].auth
               THEN /\ t.log = log /\ t.calls = calls /\ t.phase = s31
                    /\ t.readyConns = Append(readyConns, c)
               ELSE /\ Len(t.log) = Len(log) + 1
                    /\ t.log[Len(t.log)].c = c
                    /\ t.log[Len(t.log)].ph = s31
                    /\ t.calls[c].ndisp = 1 /\ t.calls[c].cur = "out"
                    /\ t.calls[c].fin = 0 /\ t.phase = s31
     /\ \A i \in 1..Len(NewLog) :
          (NewLog[i].c \in UserIds /\ calls'[NewLog[i].c].auth) =>
             NewLog[i].ph = s322
     /\ (phase = s31 /\ phase' \in s32 /\ ~ub') =>
          \A c \in UserIds :
            (InSeq(c, readyConns) /\ calls[c].auth) =>
              IF phase' = s322
                THEN Dispatched(c)
                ELSE /\ ~Dispatched(c)
                     /\ calls'[c].has_error /\ calls'[c].error = "Cancelled"
                     /\ calls'[c].fin >= 1
    ]_vars

\* call 1 (auth_required) was deferred in s11 and call 2 (not auth_required)
\* was submitted while the machine was in s31: call 2 was dispatched in s31,
\* right after the authentication exchange, and call 1 when s322 was entered
C29_Witness ==
  /\ phase = s322 /\ Len(log) = 6
  /\ calls[1].st = "live" /\ calls[1].auth
  /\ calls[2].st = "live" /\ ~calls[2].auth
  /\ log[4].m = AuthMethod
  /\ log[5].c = 2 /\ log[5].ph = s31
  /\ log[6].c = 1 /\ log[6].ph = s322

\* The calls of type SysRequestEventType that exist.
SysCalls == {p \in PoolIds : calls[p].st = "live" /\ calls[p].m \in SysMethods}

\* C31: a call of type SysRequestEventType never requires auth, is never
\* connected to Ready() and never completed with Cancelled; the step in
\* which the machine takes its ReqEvent from the queue starts its exchange;
\* and when _q_process, in s11, serves the ReqEvent of such a call (the only
\* event queued) and the process survives, the machine is still in s11.
C31_SysCallDispatchedInPlace ==
  [][/\ \A p \in PoolIds :
          (calls'[p].st = "live" /\ calls'[p].m \in SysMethods) =>
            /\ ~calls'[p].auth
            /\ ~InSeq(p, readyConns') /\ calls'[p].error # "Cancelled"
     /\ \A p \in SysCalls :
          (InSeq(p, extq) /\ ~InSeq(p, extq') /\ calls'[p].st = "live") =>
            Dispatched(p)
     /\ (/\ phase = s11 /\ intq = <<>> /\ Len(extq) = 1
         /\ Head(extq) = DanglingSys \/ Head(extq) \in SysCalls
         /\ postedq # <<>> /\ IsProc(Head(postedq))
         /\ postedq' = Tail(postedq) /\ ~ub') =>
           phase' = s11
    ]_vars

\* C32: in s322 the ReqEvent of every application call not yet dispatched,
\* and in s321 that of every such call without auth_required, starts the
\* exchange of the call at once: the call is not connected to Ready(), not
\* completed, and the machine stays where it is.  LoginFinished(true) in
\* s321 takes the machine to s322 and changes nothing else: s3 is not left
\* (no history recorded) and Ready() is not emitted.
C32_ReadyDispatchesAtOnce ==
  /\ \A c \in UserIds :
       (/\ ~ub /\ phase \in s32 /\ calls[c].st = "live"
        /\ calls[c].ndisp = 0 /\ calls[c].fin = 0
        /\ phase = s322 \/ ~calls[c].auth) =>
          LET t == SMRequest(Cur, c) IN
            /\ Len(t.log) = Len(log) + 1
            /\ t.log[Len(t.log)].c = c /\ t.log[Len(t.log)].ph = phase
            /\ t.calls[c].ndisp = 1 /\ t.calls[c].cur = "out"
            /\ t.calls[c].fin = 0 /\ ~t.calls[c].has_error
            /\ t.readyConns = readyConns /\ t.phase = phase
            /\ t.postedq = postedq
  /\ (~ub /\ phase = s321) =>
       SMSignal(Cur, "LoginTrue") = [Cur EXCEPT !.phase = s322]

\* call 2, with auth_required, was submitted in s322 and dispatched there
\* without ever being connected to Ready()
C32_Witness ==
  /\ phase = s322 /\ calls[2].st = "live" /\ calls[2].auth
  /\ calls[2].ndisp = 1 /\ calls[2].cur = "out" /\ calls[2].fin = 0
  /\ ~InSeq(2, readyConns) /\ InSeq(1, readyConns)
  /\ log[Len(log)].c = 2 /\ log[Len(log)].ph = s322

\* C33: a call that has got Finished() is not dispatched afterwards.
C33_NoDispatchAfterFinished ==
  [][\A c \in UserIds :
       (calls[c].st = "live" /\ calls[c].fin >= 1) => ~Dispatched(c)
    ]_vars

\* C34: whenever the machine is in s32, logged_in_ is TRUE exactly when it
\* is in s322.
C34_LoggedInMatchesState ==
  phase \in s32 => (logged_in <=> phase = s322)

\* The exchanges of calls of type SysRequestEventType that are outstanding.
SysInFlight(p) ==
  IF calls[p].st = "live" /\ calls[p].m \in SysMethods
    THEN (IF calls[p].cur = "out" THEN 1 ELSE 0) + calls[p].old
    ELSE 0

\* C36: at most one exchange of a call of type SysRequestEventType is
\* outstanding, and only while the machine is in s2; Fault() and Ok() are
\* emitted (a call of that type gets Finished()) only while it is in s2.
C36_OneBootstrapExchange ==
  [][/\ SysInFlight(3)' + SysInFlight(4)' <= 1
     /\ SysInFlight(3)' + SysInFlight(4)' = 1 => phase' \in s2
     /\ \A p \in SysCalls : calls'[p].fin > calls[p].fin => phase \in s2
    ]_vars

\* C37: application calls without auth_required are dispatched in the order
\* of their submission: call 2, submitted after call 1, has no exchange
\* started while call 1 is waiting for its first.
C37_DispatchInSubmissionOrder ==
  (/\ calls[1].st = "live" /\ ~calls[1].auth /\ calls[1].fin = 0
   /\ calls[2].st = "live" /\ ~calls[2].auth) =>
     (calls[1].ndisp = 0 => calls[2].ndisp = 0)

\* C35: as long as the process lives, a machine in s2 leaves s2 eventually,
\* every outstanding exchange being answered or timed out in the end.
C35_ConnectingEnds ==
  ([]~ub) => ((phase \in s2) ~> (phase \notin s2))

=============================================================================
